---- MODULE Spec2Model ----
(***************************************************************************)
(* The Trillium Model knowledge base: the view state machine of App, the   *)
(* three feature components (Summaries, QnA, Quiz) with their React state, *)
(* the Gemini gateway (generateSummary, answerQuestion, generateQuiz) and  *)
(* parseSections.                                                          *)
(*                                                                         *)
(* Spec is the application; SpecGateway is one call of the gateway for     *)
(* every configuration and remote outcome; SpecSegment is one call of      *)
(* parseSections for every document of up to MaxLines lines.               *)
(*                                                                         *)
(* React semantics the model relies on:                                    *)
(*  - renderContent() returns a different element type per view, so a view *)
(*    change unmounts the component of the old view (its useState values   *)
(*    are discarded) and mounts a fresh instance of the new one;           *)
(*  - a promise continuation of an unmounted instance still runs, but its  *)
(*    setState calls reach no mounted component;                           *)
(*  - the useEffect of Summaries runs after every render whose             *)
(*    dependencies changed, before the next user event is handled.         *)
(***************************************************************************)
EXTENDS Integers, Sequences, FiniteSets, Bags, TLC

(***************************************************************************)
(* Bounds of the model.                                                    *)
(***************************************************************************)
\* Number of sections of the document handed to Summaries.
NumSections == 3
\* In-flight requests whose component instance has been unmounted.
MaxOrphans == 1
\* Length of the text typed into the Q&A textarea.
MaxQuestionLen == 1
\* Number of questions of a quiz the remote service returns to the app.
MaxQuizLen == 2
\* Number of lines of a document handed to parseSections.
MaxLines == 4

(***************************************************************************)
(* Program constants.                                                      *)
(***************************************************************************)
\* "Create a 5-question multiple-choice quiz", "exactly 4 options".
QuizLength == 5
OptionCount == 4

API_KEY_ERROR == "API Key is not configured. Please set up the process.env.API_KEY environment variable."
SUMMARY_FALLBACK == "Failed to generate summary."
ANSWER_FALLBACK == "Failed to get an answer. Please try again."
QUIZ_FORMAT_ERROR == "Invalid response format from API."
QUIZ_FAILURE == "Failed to generate quiz. Please try again."
QUIZ_DATA_ERROR == "Invalid quiz data format."

\* The titles parseSections yields for reportContent, in document order.
ReportTitles ==
    << "Abstract",
       "I. The Core Framework: A Scale of Existence",
       "II. The Encompassing Elements: The Unified Field of Consciousness",
       "III. The Psychological and Philosophical Interconnection",
       "Conclusion" >>

\* The sections prop of Summaries (titles only: the content is just passed on).
sections == SubSeq(ReportTitles, 1, NumSections)

Views == {"home", "summary", "qna", "quiz"}

\* Values the search input can hold.
SearchTerms == {"", "x"}

(***************************************************************************)
(* JavaScript values.                                                      *)
(***************************************************************************)
\* A text is a sequence of characters; " " is the whitespace character.
Chars == {" ", "a"}

RECURSIVE TextsUpTo(_)
TextsUpTo(n) ==
    IF n = 0 THEN {<< >>}
    ELSE LET shorter == TextsUpTo(n - 1)
         IN  shorter \cup {Append(t, c) : t \in shorter, c \in Chars}

QuestionTexts == TextsUpTo(MaxQuestionLen)

\* The characters String.prototype.trim removes.
Newline == "\n"
Whitespace == {" ", Newline}

RECURSIVE TrimStart(_)
TrimStart(t) ==
    IF t # << >> /\ Head(t) \in Whitespace THEN TrimStart(Tail(t)) ELSE t

RECURSIVE TrimEnd(_)
TrimEnd(t) ==
    IF t # << >> /\ t[Len(t)] \in Whitespace
    THEN TrimEnd(SubSeq(t, 1, Len(t) - 1)) ELSE t

\* String.prototype.trim
Trim(t) == TrimEnd(TrimStart(t))

\* A Record<K, V> object: a function whose domain is the set of keys present.
EmptyObject == << >>

\* obj[key]: the value, or undefined when the key is absent.
Undefined == "undefined"
Get(obj, key) == IF key \in DOMAIN obj THEN obj[key] ELSE Undefined

\* { ...obj, [key]: value }
Put(obj, key, value) ==
    [k \in DOMAIN obj \cup {key} |-> IF k = key THEN value ELSE obj[k]]

\* Truthiness of a string | undefined value.
Truthy(v) == v \notin {Undefined, ""}

\* Truthiness of obj[key] in a Record<K, boolean>.
Flag(obj, key) == key \in DOMAIN obj /\ obj[key]

\* Object.keys(obj).length
KeyCount(obj) == Cardinality(DOMAIN obj)

(***************************************************************************)
(* Strings of parseSections.  A string is a sequence of symbols: "#", " "  *)
(* and the line break are characters, every other symbol is a run of text  *)
(* that holds none of these three.                                         *)
(***************************************************************************)
\* String.prototype.startsWith
SeqStartsWith(t, prefix) ==
    Len(t) >= Len(prefix) /\ SubSeq(t, 1, Len(prefix)) = prefix

\* String.prototype.indexOf: the first position (from 0) where pattern
\* occurs, or -1.
IndexOf(t, pattern) ==
    LET hits == {i \in 0..(Len(t) - Len(pattern)) :
                    SubSeq(t, i + 1, i + Len(pattern)) = pattern}
    IN  IF hits = {} THEN -1 ELSE CHOOSE i \in hits : \A j \in hits : i <= j

\* String.prototype.substring: both indexes are clamped to 0..length and
\* swapped when the first is the larger one.
Clamp(i, n) == IF i < 0 THEN 0 ELSE IF i > n THEN n ELSE i
Substring(t, indexStart, indexEnd) ==
    LET a == Clamp(indexStart, Len(t))
        b == Clamp(indexEnd, Len(t))
    IN  IF a <= b THEN SubSeq(t, a + 1, b) ELSE SubSeq(t, b + 1, a)

\* String.prototype.replace with a string pattern: the first occurrence.
ReplaceFirst(t, pattern, replacement) ==
    LET i == IndexOf(t, pattern)
    IN  IF i = -1 THEN t
        ELSE SubSeq(t, 1, i) \o replacement \o SubSeq(t, i + Len(pattern) + 1, Len(t))

\* String.prototype.split('\n')
RECURSIVE Split(_)
Split(t) ==
    LET i == IndexOf(t, << Newline >>)
    IN  IF i = -1 THEN << t >>
        ELSE << SubSeq(t, 1, i) >> \o Split(SubSeq(t, i + 2, Len(t)))

\* The literals of parseSections.
ABSTRACT == << "Abstract" >>
ABSTRACT_MARKER == << "#", "#", " ", "Abstract" >>
CORE_MARKER == << "#", "#", " ", "I. The Core Framework" >>
HEADING_PREFIX == << "#", "#" >>

\* replace(/^## /, '')
StripHeadingMark(t) ==
    IF SeqStartsWith(t, << "#", "#", " " >>) THEN SubSeq(t, 4, Len(t)) ELSE t

Section(title, content) == [title |-> title, content |-> content]

FlushAtHeading_Never(secs, cur) == secs

FlushAtHeading_KeepsBlank(secs, cur) ==
    IF cur.title # ABSTRACT
    THEN Append(secs, Section(cur.title, Trim(cur.content)))
    ELSE secs

\* The flush at a heading line.
FlushAtHeading(secs, cur) ==
    IF Len(Trim(cur.content)) > 0 /\ cur.title # ABSTRACT
    THEN Append(secs, Section(cur.title, Trim(cur.content)))
    ELSE secs

\* The flush after the last line.
FlushAtEnd(secs, cur) ==
    IF Len(Trim(cur.content)) > 0
    THEN Append(secs, Section(cur.title, Trim(cur.content)))
    ELSE secs

\* for (const line of lines) { ... }, from line i on.
RECURSIVE ScanLines(_, _, _, _)
ScanLines(lines, i, secs, cur) ==
    IF i > Len(lines) THEN FlushAtEnd(secs, cur)
    ELSE LET line == lines[i]
         IN  IF SeqStartsWith(Trim(line), HEADING_PREFIX)
             THEN ScanLines(lines, i + 1, FlushAtHeading(secs, cur),
                            Section(StripHeadingMark(Trim(line)), << >>))
             ELSE ScanLines(lines, i + 1, secs,
                            Section(cur.title, cur.content \o line \o << Newline >>))

parseSections(text) ==
    LET abstractContent ==
            Substring(text, IndexOf(text, ABSTRACT_MARKER), IndexOf(text, CORE_MARKER))
        first == Section(ABSTRACT, Trim(ReplaceFirst(abstractContent, ABSTRACT_MARKER, << >>)))
    IN  ScanLines(Split(text), 1, << first >>, Section(ABSTRACT, << >>))

\* Lines of the documents parseSections is applied to: the two headings its
\* literals name, an indented heading, a third-level heading, two lines of
\* text and a line of whitespace.
LineCandidates ==
    { ABSTRACT_MARKER,
      CORE_MARKER,
      << " ", "#", "#", " ", "II" >>,
      << "#", "#", "#", " ", "Sub" >>,
      << "foo" >>,
      << "bar" >>,
      << " " >> }

RECURSIVE LinesUpTo(_)
LinesUpTo(n) ==
    IF n = 0 THEN {<< >>}
    ELSE LET shorter == LinesUpTo(n - 1)
         IN  shorter \cup {Append(ls, l) : ls \in shorter, l \in LineCandidates}

\* Array.prototype.join('\n')
RECURSIVE JoinLines(_)
JoinLines(ls) ==
    IF ls = << >> THEN << >>
    ELSE IF Len(ls) = 1 THEN ls[1]
    ELSE ls[1] \o << Newline >> \o JoinLines(Tail(ls))

Documents == {JoinLines(ls) : ls \in LinesUpTo(MaxLines)}

(***************************************************************************)
(* The remote completion service, seen from the gateway.                   *)
(***************************************************************************)
\* Text of a summary or an answer the service may return.
RemoteTexts == {"", "ok"}

\* Outcome of ai.models.generateContent for a summary or an answer:
\* the call resolves with response.text = text (ok) or rejects.
TextOutcomes == [ok : BOOLEAN, text : RemoteTexts]

\* A QuizQuestion (its question string is only displayed and is left out).
QuizOptions == << "A", "B" >>
QuestionCandidates ==
    [options : {QuizOptions}, correctAnswer : {"A", "B", "Z"}]

RECURSIVE QuizzesUpTo(_)
QuizzesUpTo(n) ==
    IF n = 0 THEN {<< >>}
    ELSE LET shorter == QuizzesUpTo(n - 1)
         IN  shorter \cup {Append(qs, q) : qs \in shorter, q \in QuestionCandidates}

\* A quiz as the prompt asks for it: 5 questions of 4 options each.
FullOptions == << "A", "B", "C", "D" >>
FullQuiz ==
    [i \in 1..QuizLength |->
        [options |-> FullOptions, correctAnswer |-> FullOptions[(i % OptionCount) + 1]]]

\* Values JSON.parse can return, by what the callers read of them.
JsonObjectWithQuiz(qs) == [type |-> "object", hasQuiz |-> TRUE, quiz |-> qs]
JsonObjectOther == [type |-> "object", hasQuiz |-> FALSE, quiz |-> << >>]
JsonArray == [type |-> "array", hasQuiz |-> FALSE, quiz |-> << >>]
JsonScalar == [type |-> "scalar", hasQuiz |-> FALSE, quiz |-> << >>]
\* The text is not JSON: JSON.parse throws.
NoJson == [type |-> "none", hasQuiz |-> FALSE, quiz |-> << >>]

\* A response text of the quiz call: whether whitespace surrounds it, the
\* first character of its body, and the value its body denotes as JSON.
QuizTexts(quizzes) ==
    [pad : BOOLEAN, first : {"{"},
     json : {JsonObjectWithQuiz(qs) : qs \in quizzes} \cup {JsonObjectOther, NoJson}]
    \cup [pad : BOOLEAN, first : {"["}, json : {JsonArray, NoJson}]
    \cup [pad : BOOLEAN, first : {"x"}, json : {JsonScalar, NoJson}]

\* Outcome of ai.models.generateContent for the quiz call.
QuizOutcomes(quizzes) == [ok : BOOLEAN, text : QuizTexts(quizzes)]

\* String.prototype.trim on a response text.
TrimText(text) == [text EXCEPT !.pad = FALSE]

\* String.prototype.startsWith on a response text.
StartsWith(text, c) == ~text.pad /\ text.first = c

VARIABLES
    hasKey,               \* ai !== null (process.env.API_KEY is set)
    view, searchTerm,     \* App
    summaries, loading, currentSectionIndex,        \* Summaries
    question, answer, qnaLoading,                   \* QnA
    questions, quizLoading, userAnswers, showResults,  \* Quiz
    requests,             \* gateway calls whose promise is pending
    gwCall, gwResult,     \* a single gateway call and what it settled to
    document, parsed      \* a text and what parseSections returned for it

appVars == << view, searchTerm, summaries, loading, currentSectionIndex,
              question, answer, qnaLoading,
              questions, quizLoading, userAnswers, showResults, requests >>
gwVars == << gwCall, gwResult >>
segVars == << document, parsed >>
vars == << hasKey, appVars, gwVars, segVars >>

(***************************************************************************)
(* services/geminiService.ts                                               *)
(***************************************************************************)
Null == "null"
Return(v) == [raised |-> FALSE, value |-> v, message |-> ""]
Throw(v, msg) == [raised |-> TRUE, value |-> v, message |-> msg]

checkApiKey == IF ~hasKey THEN API_KEY_ERROR ELSE Null

generateSummary_Rethrows(out) ==
    IF checkApiKey # Null THEN Return(checkApiKey)
    ELSE IF out.ok THEN Return(out.text)
    ELSE Throw(Null, "remote failure")

generateSummary(out) ==
    IF checkApiKey # Null THEN Return(checkApiKey)
    ELSE IF out.ok THEN Return(out.text)
    ELSE Return(SUMMARY_FALLBACK)

answerQuestion(out) ==
    IF checkApiKey # Null THEN Return(checkApiKey)
    ELSE IF out.ok THEN Return(out.text)
    ELSE Return(ANSWER_FALLBACK)

\* JSON.parse
JsonParse(text) ==
    IF text.json = NoJson THEN Throw(NoJson, "SyntaxError") ELSE Return(text.json)

generateQuizTry_NoFormatCheck(out) ==
    IF ~out.ok THEN Throw(NoJson, "remote failure")
    ELSE JsonParse(TrimText(out.text))

\* The body of the try block of generateQuiz.
generateQuizTry(out) ==
    IF ~out.ok THEN Throw(NoJson, "remote failure")
    ELSE LET jsonText == TrimText(out.text)
         IN  IF ~StartsWith(jsonText, "{") /\ ~StartsWith(jsonText, "[")
             THEN Throw(NoJson, QUIZ_FORMAT_ERROR)
             ELSE JsonParse(jsonText)

generateQuiz(out) ==
    IF checkApiKey # Null THEN Throw(NoJson, checkApiKey)
    ELSE LET r == generateQuizTry(out)
         IN  IF r.raised THEN Throw(NoJson, QUIZ_FAILURE) ELSE r

\* The number of calls of ai.models.generateContent one call of the gateway
\* makes: each operation checks the key before it reaches the remote call.
generateSummaryRemoteCalls == IF checkApiKey # Null THEN 0 ELSE 1
answerQuestionRemoteCalls == IF checkApiKey # Null THEN 0 ELSE 1
generateQuizRemoteCalls == IF checkApiKey # Null THEN 0 ELSE 1

(***************************************************************************)
(* Pending gateway calls.  A request remembers the component instance that *)
(* issued it only as far as it matters: live is TRUE while that instance   *)
(* is still mounted, so that the setState calls of its continuation reach  *)
(* the state variables of the model.                                       *)
(***************************************************************************)
SummaryRequest(title) ==
    [op |-> "summary", title |-> title, question |-> << >>, live |-> TRUE]
AnswerRequest(q) ==
    [op |-> "answer", title |-> "", question |-> q, live |-> TRUE]
QuizRequest ==
    [op |-> "quiz", title |-> "", question |-> << >>, live |-> TRUE]

Issue(reqs, r) == reqs (+) SetToBag({r})
Settle(reqs, r) == reqs (-) SetToBag({r})

\* Number of pending requests, with their copies, among the requests in S.
Pending(reqs, S) == BagCardinality([r \in S \cap BagToSet(reqs) |-> reqs[r]])

Orphans(reqs) == Pending(reqs, {r \in BagToSet(reqs) : ~r.live})

\* The pending requests once the mounted component instance is unmounted.
Unmount(reqs) ==
    LET Orphaned(r) == [r EXCEPT !.live = FALSE]
        Alive(o) == [o EXCEPT !.live = TRUE]
        Copies(r) == IF BagIn(r, reqs) THEN reqs[r] ELSE 0
    IN  [o \in {Orphaned(r) : r \in BagToSet(reqs)} |-> Copies(o) + Copies(Alive(o))]

(***************************************************************************)
(* Summaries                                                               *)
(***************************************************************************)
\* sections[currentSectionIndex].title (the index is 0-based)
TitleAt(index) == sections[index + 1]

\* The useEffect of Summaries, run on the state (sm, ld, index) a render
\* committed: it calls callGenerateSummary, up to its await, when the
\* current section has neither a summary nor a request of its own pending.
useEffect(sm, ld, index, reqs) ==
    LET title == TitleAt(index)
    IN  /\ summaries' = sm
        /\ currentSectionIndex' = index
        /\ IF ~Truthy(Get(sm, title)) /\ ~Flag(ld, title)
           THEN /\ loading' = Put(ld, title, TRUE)
                /\ requests' = Issue(reqs, SummaryRequest(title))
           ELSE /\ loading' = ld
                /\ requests' = reqs

NextDisabled_IgnoresLoading == currentSectionIndex = Len(sections) - 1

PrevDisabled == currentSectionIndex = 0 \/ Flag(loading, TitleAt(currentSectionIndex))
NextDisabled ==
    currentSectionIndex = Len(sections) - 1 \/ Flag(loading, TitleAt(currentSectionIndex))

handleNext ==
    IF currentSectionIndex < Len(sections) - 1
    THEN useEffect(summaries, loading, currentSectionIndex + 1, requests)
    ELSE UNCHANGED << summaries, loading, currentSectionIndex, requests >>

handlePrev_ToFirst ==
    IF currentSectionIndex > 0
    THEN useEffect(summaries, loading, 0, requests)
    ELSE UNCHANGED << summaries, loading, currentSectionIndex, requests >>

handlePrev ==
    IF currentSectionIndex > 0
    THEN useEffect(summaries, loading, currentSectionIndex - 1, requests)
    ELSE UNCHANGED << summaries, loading, currentSectionIndex, requests >>

\* The user presses the "Next section" button.
ClickNext ==
    /\ view = "summary"
    /\ IF NextDisabled
       THEN UNCHANGED << summaries, loading, currentSectionIndex, requests >>
       ELSE handleNext
    /\ UNCHANGED << hasKey, view, searchTerm, question, answer, qnaLoading,
                    questions, quizLoading, userAnswers, showResults, gwVars, segVars >>

\* The user presses the "Previous section" button.
ClickPrev ==
    /\ view = "summary"
    /\ IF PrevDisabled
       THEN UNCHANGED << summaries, loading, currentSectionIndex, requests >>
       ELSE handlePrev
    /\ UNCHANGED << hasKey, view, searchTerm, question, answer, qnaLoading,
                    questions, quizLoading, userAnswers, showResults, gwVars, segVars >>

\* callGenerateSummary from its await on: the call of request r settles with
\* the remote outcome out.  The catch block is kept although generateSummary
\* never raises.
SummarySettles(r, out) ==
    /\ BagIn(r, requests)
    /\ r.op = "summary"
    /\ LET res == generateSummary(out)
           text == IF res.raised THEN SUMMARY_FALLBACK ELSE res.value
       IN  IF r.live
           THEN useEffect(Put(summaries, r.title, text), Put(loading, r.title, FALSE),
                          currentSectionIndex, Settle(requests, r))
           ELSE /\ requests' = Settle(requests, r)
                /\ UNCHANGED << summaries, loading, currentSectionIndex >>
    /\ UNCHANGED << hasKey, view, searchTerm, question, answer, qnaLoading,
                    questions, quizLoading, userAnswers, showResults, gwVars, segVars >>

(***************************************************************************)
(* QnA                                                                     *)
(***************************************************************************)
AskDisabled == qnaLoading \/ Trim(question) = << >>

SetQuestion_WhileLoading(q) ==
    /\ view = "qna"
    /\ q # question
    /\ question' = q
    /\ UNCHANGED << hasKey, view, searchTerm, summaries, loading, currentSectionIndex,
                    answer, qnaLoading,
                    questions, quizLoading, userAnswers, showResults, requests, gwVars, segVars >>

\* onChange of the textarea (disabled while loading).
SetQuestion(q) ==
    /\ view = "qna"
    /\ q # question
    /\ question' = IF qnaLoading THEN question ELSE q
    /\ UNCHANGED << hasKey, view, searchTerm, summaries, loading, currentSectionIndex,
                    answer, qnaLoading,
                    questions, quizLoading, userAnswers, showResults, requests, gwVars, segVars >>

\* handleAsk up to its await.
handleAsk ==
    IF Trim(question) = << >>
    THEN UNCHANGED << answer, qnaLoading, requests >>
    ELSE /\ qnaLoading' = TRUE
         /\ answer' = ""
         /\ requests' = Issue(requests, AnswerRequest(question))

\* The user presses "Get Answer".
ClickAsk ==
    /\ view = "qna"
    /\ IF AskDisabled THEN UNCHANGED << answer, qnaLoading, requests >> ELSE handleAsk
    /\ UNCHANGED << hasKey, view, searchTerm, summaries, loading, currentSectionIndex,
                    question, questions, quizLoading, userAnswers, showResults, gwVars, segVars >>

\* handleAsk from its await on, without its finally block.
AnswerSettles_KeepsLoading(r, out) ==
    /\ BagIn(r, requests)
    /\ r.op = "answer"
    /\ requests' = Settle(requests, r)
    /\ LET res == answerQuestion(out)
           text == IF res.raised THEN ANSWER_FALLBACK ELSE res.value
       IN  IF r.live
           THEN answer' = text /\ qnaLoading' = qnaLoading
           ELSE UNCHANGED << answer, qnaLoading >>
    /\ UNCHANGED << hasKey, view, searchTerm, summaries, loading, currentSectionIndex,
                    question, questions, quizLoading, userAnswers, showResults, gwVars, segVars >>

\* handleAsk from its await on.
AnswerSettles(r, out) ==
    /\ BagIn(r, requests)
    /\ r.op = "answer"
    /\ requests' = Settle(requests, r)
    /\ LET res == answerQuestion(out)
           text == IF res.raised THEN ANSWER_FALLBACK ELSE res.value
       IN  IF r.live
           THEN answer' = text /\ qnaLoading' = FALSE
           ELSE UNCHANGED << answer, qnaLoading >>
    /\ UNCHANGED << hasKey, view, searchTerm, summaries, loading, currentSectionIndex,
                    question, questions, quizLoading, userAnswers, showResults, gwVars, segVars >>

(***************************************************************************)
(* Quiz                                                                    *)
(***************************************************************************)
\* Quizzes the remote service returns to the running app.
AppQuizzes == QuizzesUpTo(MaxQuizLen)

StartDisabled == quizLoading

\* callGenerateQuiz without its setUserAnswers({}).
callGenerateQuiz_KeepsAnswers ==
    /\ quizLoading' = TRUE
    /\ questions' = << >>
    /\ userAnswers' = userAnswers
    /\ showResults' = FALSE
    /\ requests' = Issue(requests, QuizRequest)

\* callGenerateQuiz without its setQuestions([]).
callGenerateQuiz_KeepsQuestions ==
    /\ quizLoading' = TRUE
    /\ questions' = questions
    /\ userAnswers' = EmptyObject
    /\ showResults' = FALSE
    /\ requests' = Issue(requests, QuizRequest)

\* callGenerateQuiz up to its await.
callGenerateQuiz ==
    /\ quizLoading' = TRUE
    /\ questions' = << >>
    /\ userAnswers' = EmptyObject
    /\ showResults' = FALSE
    /\ requests' = Issue(requests, QuizRequest)

\* The user presses "Start New Quiz".
ClickStart ==
    /\ view = "quiz"
    /\ IF StartDisabled
       THEN UNCHANGED << questions, quizLoading, userAnswers, showResults, requests >>
       ELSE callGenerateQuiz
    /\ UNCHANGED << hasKey, view, searchTerm, summaries, loading, currentSectionIndex,
                    question, answer, qnaLoading, gwVars, segVars >>

\* callGenerateQuiz from its await on, were its setState calls to reach the
\* mounted Quiz whichever instance issued the request.
QuizSettles_AnyInstance(r, out) ==
    /\ BagIn(r, requests)
    /\ r.op = "quiz"
    /\ requests' = Settle(requests, r)
    /\ LET res == generateQuiz(out)
       IN  IF view = "quiz"
           THEN /\ questions' = IF ~res.raised /\ res.value.hasQuiz
                                THEN res.value.quiz
                                ELSE questions
                /\ quizLoading' = FALSE
           ELSE UNCHANGED << questions, quizLoading >>
    /\ UNCHANGED << hasKey, view, searchTerm, summaries, loading, currentSectionIndex,
                    question, answer, qnaLoading, userAnswers, showResults, gwVars, segVars >>

\* callGenerateQuiz from its await on (the alert of the catch block changes
\* no state).
QuizSettles(r, out) ==
    /\ BagIn(r, requests)
    /\ r.op = "quiz"
    /\ requests' = Settle(requests, r)
    /\ LET res == generateQuiz(out)
       IN  IF r.live
           THEN /\ questions' = IF ~res.raised /\ res.value.hasQuiz
                                THEN res.value.quiz
                                ELSE questions
                /\ quizLoading' = FALSE
           ELSE UNCHANGED << questions, quizLoading >>
    /\ UNCHANGED << hasKey, view, searchTerm, summaries, loading, currentSectionIndex,
                    question, answer, qnaLoading, userAnswers, showResults, gwVars, segVars >>

\* The question cards and the submit button are rendered.
QuizFormShown == Len(questions) > 0 /\ ~showResults

handleOptionSelect_ReplacesAll(questionIndex, option) ==
    userAnswers' = Put(EmptyObject, questionIndex, option)

handleOptionSelect(questionIndex, option) ==
    userAnswers' = Put(userAnswers, questionIndex, option)

\* The user presses option oIndex of question qIndex (both 0-based).
ClickOption(qIndex, oIndex) ==
    /\ view = "quiz"
    /\ QuizFormShown
    /\ qIndex \in 0..(Len(questions) - 1)
    /\ oIndex \in 0..(Len(questions[qIndex + 1].options) - 1)
    /\ handleOptionSelect(qIndex, questions[qIndex + 1].options[oIndex + 1])
    /\ UNCHANGED << hasKey, view, searchTerm, summaries, loading, currentSectionIndex,
                    question, answer, qnaLoading,
                    questions, quizLoading, showResults, requests, gwVars, segVars >>

\* The submit button disabled only while nothing has been answered.
SubmitDisabled_OnlyWhenEmpty == KeyCount(userAnswers) = 0

SubmitDisabled == KeyCount(userAnswers) < Len(questions)

\* The user presses "Submit Answers".
ClickSubmit ==
    /\ view = "quiz"
    /\ QuizFormShown
    /\ showResults' = IF SubmitDisabled THEN showResults ELSE TRUE
    /\ UNCHANGED << hasKey, view, searchTerm, summaries, loading, currentSectionIndex,
                    question, answer, qnaLoading,
                    questions, quizLoading, userAnswers, requests, gwVars, segVars >>

\* calculateScore: the forEach loop from index on, with score so far.
RECURSIVE ScoreLoop(_, _)
ScoreLoop(index, score) ==
    IF index >= Len(questions) THEN score
    ELSE ScoreLoop(index + 1,
                   IF Get(userAnswers, index) = questions[index + 1].correctAnswer
                   THEN score + 1 ELSE score)

\* calculateScore with a loop that starts at the second question.
calculateScore_SkipsFirst == ScoreLoop(1, 0)

calculateScore == ScoreLoop(0, 0)

\* "Your Score: s / n" of the results block, or nothing when it is not rendered.
NoScore == << >>
ScoreShown ==
    IF view = "quiz" /\ showResults THEN << calculateScore, Len(questions) >> ELSE NoScore

(***************************************************************************)
(* App                                                                     *)
(***************************************************************************)
\* renderContent after view became v: the component of the old view is gone
\* and its state with it, the component of v is mounted with its initial
\* state, and the effect of a mounted Summaries runs.
Render(v, reqs) ==
    /\ question' = << >>
    /\ answer' = ""
    /\ qnaLoading' = FALSE
    /\ questions' = << >>
    /\ quizLoading' = FALSE
    /\ userAnswers' = EmptyObject
    /\ showResults' = FALSE
    /\ IF v = "summary"
       THEN useEffect(EmptyObject, EmptyObject, 0, reqs)
       ELSE /\ summaries' = EmptyObject
            /\ loading' = EmptyObject
            /\ currentSectionIndex' = 0
            /\ requests' = reqs

\* setView(v) and the render it causes.
setView(v) ==
    IF v = view
    THEN UNCHANGED appVars
    ELSE /\ Orphans(Unmount(requests)) <= MaxOrphans
         /\ view' = v
         /\ Render(v, Unmount(requests))

ClickNav_ClearsSearch(v) ==
    /\ setView(v)
    /\ searchTerm' = ""
    /\ UNCHANGED << hasKey, gwVars, segVars >>

\* The user presses a navigation button.
ClickNav(v) ==
    /\ setView(v)
    /\ searchTerm' = searchTerm
    /\ UNCHANGED << hasKey, gwVars, segVars >>

EditSearch_StaysInView(term) ==
    /\ term # searchTerm
    /\ searchTerm' = term
    /\ UNCHANGED << view, summaries, loading, currentSectionIndex,
                    question, answer, qnaLoading,
                    questions, quizLoading, userAnswers, showResults, requests >>
    /\ UNCHANGED << hasKey, gwVars, segVars >>

\* onChange of the search input.
EditSearch(term) ==
    /\ term # searchTerm
    /\ searchTerm' = term
    /\ IF view # "home"
       THEN setView("home")
       ELSE UNCHANGED << view, summaries, loading, currentSectionIndex,
                         question, answer, qnaLoading,
                         questions, quizLoading, userAnswers, showResults, requests >>
    /\ UNCHANGED << hasKey, gwVars, segVars >>

NoCall == [op |-> "none", settled |-> TRUE]
NoResult == [raised |-> FALSE, value |-> Null, message |-> "pending"]
NoDocument == << >>
NotParsed == << >>

Init ==
    /\ hasKey \in BOOLEAN
    /\ view = "home"
    /\ searchTerm = ""
    /\ summaries = EmptyObject
    /\ loading = EmptyObject
    /\ currentSectionIndex = 0
    /\ question = << >>
    /\ answer = ""
    /\ qnaLoading = FALSE
    /\ questions = << >>
    /\ quizLoading = FALSE
    /\ userAnswers = EmptyObject
    /\ showResults = FALSE
    /\ requests = EmptyBag
    /\ gwCall = NoCall
    /\ gwResult = NoResult
    /\ document = NoDocument
    /\ parsed = NotParsed

Next ==
    \/ \E v \in Views : ClickNav(v)
    \/ \E term \in SearchTerms : EditSearch(term)
    \/ ClickNext
    \/ ClickPrev
    \/ \E r \in BagToSet(requests), out \in TextOutcomes : SummarySettles(r, out)
    \/ \E q \in QuestionTexts : SetQuestion(q)
    \/ ClickAsk
    \/ \E r \in BagToSet(requests), out \in TextOutcomes : AnswerSettles(r, out)
    \/ ClickStart
    \/ \E r \in BagToSet(requests), out \in QuizOutcomes(AppQuizzes) : QuizSettles(r, out)
    \/ \E qIndex \in 0..(MaxQuizLen - 1), oIndex \in 0..(Len(QuizOptions) - 1) :
          ClickOption(qIndex, oIndex)
    \/ ClickSubmit

Spec == Init /\ [][Next]_vars

(***************************************************************************)
(* The application with a remote service that completes every call: each   *)
(* pending request, of a mounted component or of an unmounted one, is      *)
(* eventually settled.  Nothing is assumed of what the user does.          *)
(***************************************************************************)
AllRequests ==
    LET issued == {SummaryRequest(sections[i]) : i \in 1..Len(sections)}
                     \cup {AnswerRequest(q) : q \in QuestionTexts}
                     \cup {QuizRequest}
    IN  issued \cup {[r EXCEPT !.live = FALSE] : r \in issued}

\* The promise of request r is settled.
Completes(r) ==
    \/ \E out \in TextOutcomes : SummarySettles(r, out)
    \/ \E out \in TextOutcomes : AnswerSettles(r, out)
    \/ \E out \in QuizOutcomes(AppQuizzes) : QuizSettles(r, out)

EveryCallCompletes == \A r \in AllRequests : WF_vars(Completes(r))

SpecLive == Init /\ [][Next]_vars /\ EveryCallCompletes

(***************************************************************************)
(* The gateway on its own: one call of one of its three operations, for    *)
(* every configuration and every outcome of the remote service.            *)
(***************************************************************************)
\* Quizzes the remote service returns to a single gateway call.
GatewayQuizzes == QuizzesUpTo(1) \cup {FullQuiz}

AppAtRest ==
    /\ view = "home"
    /\ searchTerm = ""
    /\ summaries = EmptyObject
    /\ loading = EmptyObject
    /\ currentSectionIndex = 0
    /\ question = << >>
    /\ answer = ""
    /\ qnaLoading = FALSE
    /\ questions = << >>
    /\ quizLoading = FALSE
    /\ userAnswers = EmptyObject
    /\ showResults = FALSE
    /\ requests = EmptyBag

InitGateway ==
    /\ hasKey \in BOOLEAN
    /\ AppAtRest
    /\ gwResult = NoResult
    /\ document = NoDocument
    /\ parsed = NotParsed
    /\ \/ gwCall \in [op : {"summary"}, out : TextOutcomes, settled : {FALSE}, remoteCalls : {0}]
       \/ gwCall \in [op : {"answer"}, out : TextOutcomes, settled : {FALSE}, remoteCalls : {0}]
       \/ gwCall \in [op : {"quiz"}, out : QuizOutcomes(GatewayQuizzes), settled : {FALSE}, remoteCalls : {0}]

RunGenerateSummary ==
    /\ gwCall.op = "summary" /\ ~gwCall.settled
    /\ gwResult' = generateSummary(gwCall.out)
    /\ gwCall' = [gwCall EXCEPT !.settled = TRUE, !.remoteCalls = generateSummaryRemoteCalls]
    /\ UNCHANGED << hasKey, appVars, segVars >>

RunAnswerQuestion ==
    /\ gwCall.op = "answer" /\ ~gwCall.settled
    /\ gwResult' = answerQuestion(gwCall.out)
    /\ gwCall' = [gwCall EXCEPT !.settled = TRUE, !.remoteCalls = answerQuestionRemoteCalls]
    /\ UNCHANGED << hasKey, appVars, segVars >>

RunGenerateQuiz ==
    /\ gwCall.op = "quiz" /\ ~gwCall.settled
    /\ gwResult' = generateQuiz(gwCall.out)
    /\ gwCall' = [gwCall EXCEPT !.settled = TRUE, !.remoteCalls = generateQuizRemoteCalls]
    /\ UNCHANGED << hasKey, appVars, segVars >>

NextGateway == RunGenerateSummary \/ RunAnswerQuestion \/ RunGenerateQuiz

SpecGateway == InitGateway /\ [][NextGateway]_vars

(***************************************************************************)
(* parseSections on its own: one call for every document.                  *)
(***************************************************************************)
InitSegment ==
    /\ hasKey = FALSE
    /\ AppAtRest
    /\ gwCall = NoCall
    /\ gwResult = NoResult
    /\ document \in Documents
    /\ parsed = NotParsed

RunParseSections ==
    /\ parsed = NotParsed
    /\ parsed' = parseSections(document)
    /\ UNCHANGED << hasKey, appVars, gwVars, document >>

NextSegment == RunParseSections

SpecSegment == InitSegment /\ [][NextSegment]_vars

(***************************************************************************)
(* Vocabulary of the properties.                                           *)
(***************************************************************************)
Titles == {sections[i] : i \in 1..Len(sections)}

\* Pending summarize calls for title t, whatever instance issued them.
SummariesInFlightOf(reqs, t) ==
    Pending(reqs, {r \in BagToSet(reqs) : r.op = "summary" /\ r.title = t})
SummariesInFlight(t) == SummariesInFlightOf(requests, t)
\* The same count in the next state.
SummariesInFlightNext(t) == SummariesInFlightOf(requests', t)

AnswersInFlight == Pending(requests, {r \in BagToSet(requests) : r.op = "answer"})
OwnQuizInFlight ==
    Pending(requests, {r \in BagToSet(requests) : r.op = "quiz" /\ r.live})

\* The Summaries store holds a summary for t and is not waiting for one.
Loaded(t) == t \in DOMAIN summaries /\ ~Flag(loading, t)

\* This step is the completion of a gateway call.
SomeSummarySettles(t) ==
    \E r \in BagToSet(requests), out \in TextOutcomes :
        r.title = t /\ SummarySettles(r, out)
SomeCallSettles ==
    \E r \in BagToSet(requests) :
        \/ \E out \in TextOutcomes : SummarySettles(r, out) \/ AnswerSettles(r, out)
        \/ \E out \in QuizOutcomes(AppQuizzes) : QuizSettles(r, out)

\* The states of the quiz store.
QuizState ==
    IF quizLoading THEN "Loading"
    ELSE IF showResults THEN "Submitted"
    ELSE IF Len(questions) > 0 THEN "InProgress"
    ELSE "Empty"

AllAnswered == DOMAIN userAnswers = 0..(Len(questions) - 1)

(***************************************************************************)
(* C1: for every section title, at most one summarize request for that     *)
(* title is in flight at any moment, whatever the user does.               *)
(* Fails: leaving Summaries while a request is pending and coming back     *)
(* mounts a fresh instance, whose effect issues a second request.          *)
(***************************************************************************)
C1_OneSummaryInFlightPerTitle == \A t \in Titles : SummariesInFlight(t) <= 1

(***************************************************************************)
(* C2: once a summarize call for a title has completed, with any text, no  *)
(* second summarize call is issued for that title: in no step is a call    *)
(* issued for a title that already has a summary entry or whose call       *)
(* completes in that step.                                                 *)
(* Fails: a call that completes with the empty text leaves the entry       *)
(* falsy and the effect issues the next call at once.                      *)
(***************************************************************************)
C2_NoSecondSummarizeCall ==
    [][\A t \in Titles :
          /\ SomeSummarySettles(t) => SummariesInFlightNext(t) < SummariesInFlight(t)
          /\ (t \in DOMAIN summaries /\ ~SomeSummarySettles(t))
                => SummariesInFlightNext(t) <= SummariesInFlight(t)]_vars

(***************************************************************************)
(* C3: a request that completes has its result applied to its store, also  *)
(* when the user has switched to another view in the meantime.             *)
(* Fails: the store went away with the unmounted component.                *)
(***************************************************************************)
C3_ResultAppliedOnCompletion ==
    [][\A r \in BagToSet(requests) :
          /\ \A out \in TextOutcomes :
                /\ SummarySettles(r, out)
                      => Get(summaries', r.title) = generateSummary(out).value
                /\ AnswerSettles(r, out) => answer' = answerQuestion(out).value
          /\ \A out \in QuizOutcomes(AppQuizzes) :
                (QuizSettles(r, out) /\ ~generateQuiz(out).raised
                                     /\ generateQuiz(out).value.hasQuiz)
                      => questions' = generateQuiz(out).value.quiz]_vars

(***************************************************************************)
(* C4: a Loaded summary is never removed or reset: whatever the step, a    *)
(* title that is Loaded stays Loaded with the same text.                   *)
(* Fails: every change of view away from Summaries discards the store.     *)
(***************************************************************************)
C4_LoadedSummaryKept ==
    [][\A t \in Titles :
          Loaded(t) => (t \in DOMAIN summaries' /\ summaries'[t] = summaries[t]
                        /\ ~Flag(loading', t))]_vars

(***************************************************************************)
(* C5: no gateway call is issued by the completion of one: a step that     *)
(* completes a call only takes that call out of the pending ones.          *)
(* Fails: a summary that completes with the empty text is requested again  *)
(* by the effect, without any user action.                                 *)
(***************************************************************************)
C5_NoCallIssuedByCompletion ==
    [][SomeCallSettles => BagCardinality(requests') < BagCardinality(requests)]_vars

(***************************************************************************)
(* C6: pressing "Get Answer" changes nothing when the question is blank or *)
(* a Q&A request is in flight, hence at most one Q&A request is in flight. *)
(* Fails: a request issued before the view was left is still in flight     *)
(* when the fresh QnA instance accepts the next submission.                *)
(***************************************************************************)
C6_AskRejectedWhileInFlight ==
    /\ [](AnswersInFlight <= 1)
    /\ [][(ClickAsk /\ (Trim(question) = << >> \/ AnswersInFlight > 0))
             => UNCHANGED << question, answer, qnaLoading, requests >>]_vars

(***************************************************************************)
(* C7 as stated: "Start New Quiz" is enabled in every state of the quiz    *)
(* store, and pressing it leads to Loading with no questions, no answers   *)
(* and submitted = false.                                                  *)
(***************************************************************************)
C7_StartEnabledInEveryState ==
    /\ [](view = "quiz" => ~StartDisabled)
    /\ [][ClickStart => (QuizState' = "Loading" /\ questions' = << >>
                         /\ userAnswers' = EmptyObject /\ ~showResults')]_vars

(***************************************************************************)
(* C7 amended: "Start New Quiz" is disabled exactly while a quiz request   *)
(* of the mounted Quiz is in flight (Loading) and enabled in Empty,        *)
(* InProgress and Submitted; pressing it while enabled issues one quiz     *)
(* request and leads directly to Loading with no questions, no answers and *)
(* submitted = false.                                                      *)
(***************************************************************************)
C7_StartEnabledUnlessLoading ==
    /\ [](view = "quiz" =>
            /\ StartDisabled <=> (OwnQuizInFlight = 1)
            /\ StartDisabled <=> (QuizState = "Loading")
            /\ OwnQuizInFlight <= 1)
    /\ [][ClickStart => /\ QuizState' = "Loading"
                        /\ questions' = << >>
                        /\ userAnswers' = EmptyObject
                        /\ ~showResults'
                        /\ requests' = Issue(requests, QuizRequest)]_vars

\* Start was pressed: the quiz store is Loading, emptied, with its request pending.
C7_Witness ==
    /\ view = "quiz" /\ QuizState = "Loading" /\ OwnQuizInFlight = 1
    /\ questions = << >> /\ userAnswers = EmptyObject /\ ~showResults

(***************************************************************************)
(* C8: the quiz reaches Submitted only from InProgress with every question *)
(* index answered; in every Submitted state the question list is not empty *)
(* and the answer map covers exactly the question indices.                 *)
(***************************************************************************)
C8_SubmittedOnlyWhenAllAnswered ==
    /\ [](showResults => (Len(questions) > 0 /\ AllAnswered))
    /\ [][(~showResults /\ showResults')
             => (QuizState = "InProgress" /\ AllAnswered
                 /\ UNCHANGED << questions, userAnswers >>)]_vars

\* A quiz of two questions has been submitted.
C8_Witness == view = "quiz" /\ showResults /\ Len(questions) >= 2

(***************************************************************************)
(* C9: in Submitted the score shown is the number of question indices      *)
(* whose recorded answer equals the question's correctAnswer, between 0    *)
(* and the number of questions; outside Submitted no score is shown.       *)
(***************************************************************************)
C9_ScoreCountsExactMatches ==
    IF view = "quiz" /\ QuizState = "Submitted"
    THEN LET n == Len(questions)
             matches == {i \in 0..(n - 1) :
                            /\ i \in DOMAIN userAnswers
                            /\ userAnswers[i] = questions[i + 1].correctAnswer}
         IN  /\ ScoreShown = << Cardinality(matches), n >>
             /\ ScoreShown[1] \in 0..n
    ELSE ScoreShown = NoScore

\* Submitted with some, but not all, answers right.
C9_Witness ==
    /\ view = "quiz" /\ showResults
    /\ calculateScore >= 1 /\ calculateScore < Len(questions)

(***************************************************************************)
(* C10: whenever generateQuiz completes without raising, its result holds  *)
(* exactly 5 questions, each with exactly 4 options and a correctAnswer    *)
(* that is one of them.                                                    *)
(* Fails: the parsed JSON is returned as it is.                            *)
(***************************************************************************)
WellFormedQuiz(value) ==
    /\ value.hasQuiz
    /\ Len(value.quiz) = QuizLength
    /\ \A i \in 1..Len(value.quiz) :
          LET q == value.quiz[i]
          IN  /\ Len(q.options) = OptionCount
              /\ \E k \in 1..Len(q.options) : q.options[k] = q.correctAnswer

C10_QuizResultWellFormed ==
    (gwCall.op = "quiz" /\ gwCall.settled /\ ~gwResult.raised)
        => WellFormedQuiz(gwResult.value)

(***************************************************************************)
(* C11: generateQuiz raises, and returns no quiz, when no credential is    *)
(* configured, when the remote call fails, and when the trimmed response   *)
(* text starts with neither "{" nor "["; without a credential it makes no  *)
(* remote call.                                                            *)
(***************************************************************************)
QuizCallSettled == gwCall.op = "quiz" /\ gwCall.settled

BadStart(text) ==
    ~StartsWith(TrimText(text), "{") /\ ~StartsWith(TrimText(text), "[")

C11_QuizFastFailures ==
    QuizCallSettled =>
        /\ (~hasKey \/ ~gwCall.out.ok \/ BadStart(gwCall.out.text))
               => (gwResult.raised /\ ~gwResult.value.hasQuiz)
        /\ ~hasKey => gwCall.remoteCalls = 0

\* The service answered with JSON that is not an object or an array, and
\* the call raised.
C11_Witness ==
    /\ QuizCallSettled /\ hasKey /\ gwCall.out.ok
    /\ gwCall.out.text.first = "x" /\ gwCall.out.text.json = JsonScalar
    /\ gwCall.remoteCalls = 1
    /\ gwResult.raised

(***************************************************************************)
(* C12: a quiz response that is not parsable JSON, or is JSON of the wrong *)
(* shape (an object without a quiz key, a top-level array), makes          *)
(* generateQuiz raise the generic quiz failure, as a remote failure does.  *)
(* Fails: generateQuiz returns whatever JSON.parse returns.                *)
(***************************************************************************)
C12_MalformedResponseRaisesGenericFailure ==
    (/\ QuizCallSettled /\ hasKey /\ gwCall.out.ok
     /\ ~BadStart(gwCall.out.text)
     /\ ~gwCall.out.text.json.hasQuiz)
        => (gwResult.raised /\ gwResult.message = QUIZ_FAILURE)

(***************************************************************************)
(* C13: generateSummary and answerQuestion never raise: they resolve to    *)
(* the text of the remote service, to their fixed fallback when the remote *)
(* call fails, and to the configuration error text without a credential.   *)
(***************************************************************************)
TextFallback(op) == IF op = "summary" THEN SUMMARY_FALLBACK ELSE ANSWER_FALLBACK

C13_TextOperationsNeverRaise ==
    (gwCall.op \in {"summary", "answer"} /\ gwCall.settled) =>
        /\ ~gwResult.raised
        /\ gwResult.value \in RemoteTexts \cup {TextFallback(gwCall.op), API_KEY_ERROR}
        /\ ~hasKey => (gwResult.value = API_KEY_ERROR /\ gwCall.remoteCalls = 0)
        /\ (hasKey /\ gwCall.out.ok) => gwResult.value = gwCall.out.text
        /\ (hasKey /\ ~gwCall.out.ok) => gwResult.value = TextFallback(gwCall.op)

\* The remote call of generateSummary failed and the fallback came back.
C13_Witness ==
    /\ gwCall.op = "summary" /\ gwCall.settled
    /\ hasKey /\ ~gwCall.out.ok
    /\ ~gwResult.raised /\ gwResult.value = SUMMARY_FALLBACK

(***************************************************************************)
(* Vocabulary of the properties of parseSections: the document as lines,   *)
(* its heading lines, and the lines that follow each heading up to the     *)
(* next one.                                                               *)
(***************************************************************************)
DocLines == Split(document)

\* A second-level heading of the document, and any line the scan treats as
\* a heading.
IsSecondLevelHeading(line) == SeqStartsWith(Trim(line), << "#", "#", " " >>)
IsHeadingLine(line) == SeqStartsWith(Trim(line), << "#", "#" >>)

SecondLevelHeads == {i \in 1..Len(DocLines) : IsSecondLevelHeading(DocLines[i])}
HeadingLines == {i \in 1..Len(DocLines) : IsHeadingLine(DocLines[i])}

\* The text of a heading line: the line without its "## " mark.
HeadingText(line) ==
    LET t == Trim(line)
    IN  IF IsSecondLevelHeading(line) THEN SubSeq(t, 4, Len(t)) ELSE t

RECURSIVE ConcatLines(_, _, _)
ConcatLines(lines, from, to) ==
    IF from > to THEN << >>
    ELSE lines[from] \o << Newline >> \o ConcatLines(lines, from + 1, to)

\* The trimmed text between heading line h and the next line of heads.
BlockContent(lines, h, heads) ==
    LET later == {k \in heads : k > h}
        next == IF later = {} THEN Len(lines) + 1
                ELSE CHOOSE k \in later : \A j \in later : k <= j
    IN  Trim(ConcatLines(lines, h + 1, next - 1))

\* One entry per line of heads, in document order.
RECURSIVE BlocksFrom(_, _, _)
BlocksFrom(lines, i, heads) ==
    IF i > Len(lines) THEN << >>
    ELSE IF i \in heads
         THEN << Section(HeadingText(lines[i]), BlockContent(lines, i, heads)) >>
                 \o BlocksFrom(lines, i + 1, heads)
         ELSE BlocksFrom(lines, i + 1, heads)

Blocks(heads) == BlocksFrom(DocLines, 1, heads)

TitlesOf(secs) == [i \in 1..Len(secs) |-> secs[i].title]
NotAbstract(sec) == sec.title # ABSTRACT
HasContent(sec) == sec.content # << >>
CountTitled(secs, title) == Cardinality({i \in 1..Len(secs) : secs[i].title = title})

\* The text under an Abstract heading is not blank.
AbstractTextNonEmpty(heads) ==
    \E i \in 1..Len(Blocks(heads)) :
        Blocks(heads)[i].title = ABSTRACT /\ HasContent(Blocks(heads)[i])

(***************************************************************************)
(* C14: for every document with N second-level headings (besides the       *)
(* Abstract heading) and non-empty abstract text, parseSections returns    *)
(* N+1 sections: "Abstract" first, then the heading texts in document      *)
(* order.                                                                  *)
(* Fails: a heading without content yields no section, a third-level       *)
(* heading yields one, and a last Abstract heading yields a second        *)
(* "Abstract".                                                             *)
(***************************************************************************)
C14_OneSectionPerHeading ==
    (parsed # NotParsed /\ AbstractTextNonEmpty(SecondLevelHeads)) =>
        TitlesOf(parsed) =
            << ABSTRACT >> \o TitlesOf(SelectSeq(Blocks(SecondLevelHeads), NotAbstract))

(***************************************************************************)
(* C14 as it holds: when each of the N heading lines besides the Abstract  *)
(* heading is followed by content, the first section is "Abstract" and the *)
(* sections not titled "Abstract" are N, titled by the heading texts in    *)
(* document order.                                                         *)
(***************************************************************************)
EveryHeadingHasContent ==
    \A i \in 1..Len(Blocks(HeadingLines)) :
        NotAbstract(Blocks(HeadingLines)[i]) => HasContent(Blocks(HeadingLines)[i])

C14_OneSectionPerHeadingWithContent ==
    (parsed # NotParsed /\ AbstractTextNonEmpty(HeadingLines) /\ EveryHeadingHasContent) =>
        /\ parsed[1].title = ABSTRACT
        /\ TitlesOf(SelectSeq(parsed, NotAbstract)) =
               TitlesOf(SelectSeq(Blocks(HeadingLines), NotAbstract))

\* An Abstract heading with text and another heading with text: two
\* sections.
C14_Witness ==
    /\ parsed # NotParsed
    /\ AbstractTextNonEmpty(HeadingLines) /\ EveryHeadingHasContent
    /\ Len(SelectSeq(Blocks(HeadingLines), NotAbstract)) >= 1
    /\ Len(parsed) = 2

(***************************************************************************)
(* C15: a heading followed only by whitespace up to the next heading or    *)
(* the end of the document produces no section with its title, and the     *)
(* sections of the other headings are unaffected.                          *)
(* Fails for the Abstract heading: "Abstract" is always produced.          *)
(***************************************************************************)
BlankHeadings ==
    {i \in 1..Len(Blocks(HeadingLines)) : ~HasContent(Blocks(HeadingLines)[i])}

OtherSectionsUnaffected ==
    SelectSeq(parsed, NotAbstract) =
        SelectSeq(SelectSeq(Blocks(HeadingLines), HasContent), NotAbstract)

C15_BlankHeadingYieldsNoSection ==
    parsed # NotParsed =>
        /\ \A i \in BlankHeadings :
              LET title == Blocks(HeadingLines)[i].title
              IN  CountTitled(parsed, title)
                     <= CountTitled(SelectSeq(Blocks(HeadingLines), HasContent), title)
        /\ OtherSectionsUnaffected

(***************************************************************************)
(* C15 as it holds: a heading other than the Abstract heading followed     *)
(* only by whitespace produces no section, and the sections of the other   *)
(* headings besides Abstract are unaffected.                               *)
(***************************************************************************)
C15_BlankHeadingBesidesAbstractYieldsNoSection ==
    parsed # NotParsed =>
        /\ \A i \in BlankHeadings :
              LET title == Blocks(HeadingLines)[i].title
              IN  title # ABSTRACT =>
                     CountTitled(parsed, title)
                        = CountTitled(SelectSeq(Blocks(HeadingLines), HasContent), title)
        /\ OtherSectionsUnaffected

\* A heading with text and a heading without: only the first has a section.
C15_Witness ==
    /\ parsed # NotParsed
    /\ \E i \in BlankHeadings : NotAbstract(Blocks(HeadingLines)[i])
    /\ Len(SelectSeq(parsed, NotAbstract)) >= 1

(***************************************************************************)
(* C16: for every document the result holds exactly one section titled     *)
(* "Abstract", at position 0.                                              *)
(* Fails: the flush after the last line does not look at the title.        *)
(***************************************************************************)
C16_ExactlyOneAbstractFirst ==
    parsed # NotParsed =>
        /\ parsed[1].title = ABSTRACT
        /\ \A i \in 2..Len(parsed) : parsed[i].title # ABSTRACT

(***************************************************************************)
(* C19: parseSections preserves document order and heading boundaries:     *)
(* every line that is not a heading is part of the content of the section  *)
(* opened by the nearest second-level heading before it, and of no other   *)
(* section.  Stated for the documents that start with a heading, and for   *)
(* the sections and headings that have content.                            *)
(* Fails: the content of the first section is cut by two literal markers.  *)
(***************************************************************************)
C19_LinesStayInTheirSection ==
    (parsed # NotParsed /\ 1 \in SecondLevelHeads) =>
        SelectSeq(parsed, HasContent) = SelectSeq(Blocks(SecondLevelHeads), HasContent)

(***************************************************************************)
(* C17: editing the search term in a view other than the report moves the  *)
(* view to the report and sets the term; editing it in the report keeps    *)
(* the view at the report.                                                 *)
(***************************************************************************)
C17_EditSearchShowsReport ==
    [][\A term \in SearchTerms :
          EditSearch(term) => (view' = "home" /\ searchTerm' = term)]_vars

\* The term was typed while a feature view had a request in flight: the
\* report is shown and the request has lost its component.
C17_Witness ==
    /\ view = "home" /\ searchTerm = "x"
    /\ Orphans(requests) >= 1

(***************************************************************************)
(* C18: navigation between views leaves the search term unchanged; only an *)
(* edit of the search input changes it.                                    *)
(***************************************************************************)
C18_NavigationKeepsSearchTerm ==
    [][searchTerm' # searchTerm =>
          /\ ~(\E v \in Views : ClickNav(v))
          /\ \E term \in SearchTerms : EditSearch(term)]_vars

\* A feature view is shown and the term typed in the report is still there.
C18_Witness ==
    /\ view # "home" /\ searchTerm = "x"

(***************************************************************************)
(* C20: while the summary of the section shown is loading, prev and next   *)
(* are disabled and the section index does not change until the request    *)
(* completes; after a navigation the section shown is never without its    *)
(* summary and without its request.                                        *)
(***************************************************************************)
CurrentTitle == TitleAt(currentSectionIndex)

LastIndex == Len(sections) - 1

\* What a press of next or prev does to the index.
IndexStep ==
    /\ ClickNext =>
          currentSectionIndex' =
             IF NextDisabled THEN currentSectionIndex ELSE currentSectionIndex + 1
    /\ ClickPrev =>
          currentSectionIndex' =
             IF PrevDisabled THEN currentSectionIndex ELSE currentSectionIndex - 1
    /\ (ClickNext /\ currentSectionIndex = LastIndex)
          => currentSectionIndex' = LastIndex
    /\ (ClickPrev /\ currentSectionIndex = 0)
          => currentSectionIndex' = 0

(***************************************************************************)
(* C21: the section index always lies in 0..sections.length - 1; prev at   *)
(* index 0 and next at the last index leave it unchanged, and a prev or a  *)
(* next the buttons let through moves it by exactly one.                   *)
(***************************************************************************)
C21_IndexClamped ==
    /\ [](currentSectionIndex \in 0..LastIndex)
    /\ [][IndexStep]_vars

\* The last section is shown with its summary: next is at its boundary and
\* prev is enabled.
C21_Witness ==
    /\ view = "summary" /\ currentSectionIndex = LastIndex
    /\ ~Flag(loading, CurrentTitle)
    /\ NextDisabled /\ ~PrevDisabled

\* What the press of option oIndex of question qIndex does.
OptionSelected(qIndex, oIndex) ==
    LET options == questions[qIndex + 1].options
    IN  /\ QuizState = "InProgress"
        /\ DOMAIN userAnswers' = DOMAIN userAnswers \cup {qIndex}
        /\ userAnswers'[qIndex] = options[oIndex + 1]
        /\ \E k \in 1..Len(options) : userAnswers'[qIndex] = options[k]
        /\ \A i \in DOMAIN userAnswers \ {qIndex} : userAnswers'[i] = userAnswers[i]
        /\ questions' = questions
        /\ showResults' = showResults

SomeOptionPressed ==
    \E qIndex \in 0..(MaxQuizLen - 1), oIndex \in 0..(Len(QuizOptions) - 1) :
        ClickOption(qIndex, oIndex)

\* An option press has its effect, and answers change by option presses
\* only (or are emptied).
AnswerStep ==
    /\ userAnswers' # userAnswers =>
          \A qIndex \in 0..(MaxQuizLen - 1), oIndex \in 0..(Len(QuizOptions) - 1) :
              ClickOption(qIndex, oIndex) => OptionSelected(qIndex, oIndex)
    /\ (userAnswers' # userAnswers /\ userAnswers' # EmptyObject)
          => SomeOptionPressed

(***************************************************************************)
(* C22: an option can be selected only in InProgress (questions loaded,    *)
(* not submitted, not loading); the selection sets the answer of that      *)
(* question to the option pressed, one of the options of the question, and *)
(* leaves the other answers, the questions and the submitted flag as they  *)
(* are.  An answer is recorded by no other step.                           *)
(***************************************************************************)
C22_OptionSelectFrame ==
    /\ [](QuizFormShown => ~quizLoading)
    /\ [][AnswerStep]_vars

\* Two questions answered one after the other, with different options.
C22_Witness ==
    /\ view = "quiz" /\ QuizState = "InProgress"
    /\ Len(questions) = 2
    /\ DOMAIN userAnswers = {0, 1}
    /\ userAnswers[0] # userAnswers[1]

\* The Q&A requests of the mounted QnA.
OwnAnswerRequests == {r \in BagToSet(requests) : r.op = "answer" /\ r.live}

\* While loading, the one request of the mounted QnA is for the question in
\* the slot; otherwise it has none.
SlotHoldsAskedQuestion ==
    /\ Pending(requests, OwnAnswerRequests) = (IF qnaLoading THEN 1 ELSE 0)
    /\ \A r \in OwnAnswerRequests : r.question = question

\* A submission, and the completion of a Q&A request of the mounted QnA or
\* of an earlier one.
AskStep ==
    /\ (ClickAsk /\ ~AskDisabled) =>
          /\ answer' = "" /\ qnaLoading'
          /\ Pending(requests', {AnswerRequest(question)})
                = Pending(requests, {AnswerRequest(question)}) + 1
    /\ \A r \in BagToSet(requests), out \in TextOutcomes :
          AnswerSettles(r, out) =>
             IF r.live
             THEN /\ r.question = question /\ question' = question
                  /\ answer' = answerQuestion(out).value
                  /\ ~qnaLoading'
             ELSE answer' = answer /\ qnaLoading' = qnaLoading
    /\ (answer' # answer /\ answer' # "") =>
          \E r \in OwnAnswerRequests, out \in TextOutcomes : AnswerSettles(r, out)

(***************************************************************************)
(* C23: an accepted Q&A submission clears the answer and enters Loading;   *)
(* when the slot becomes Answered, the answer stored is the response to    *)
(* the question the slot holds at that moment, the one submitted last; the *)
(* response to an earlier question never overwrites it.                    *)
(***************************************************************************)
C23_AnswerIsForQuestionInSlot ==
    /\ [](SlotHoldsAskedQuestion)
    /\ [][AskStep]_vars

\* The slot is Answered while the request of an earlier QnA is in flight.
C23_Witness ==
    /\ view = "qna" /\ ~qnaLoading /\ answer = "ok"
    /\ Trim(question) # << >>
    /\ AnswersInFlight >= 1

\* The quiz request of the mounted Quiz completes as a failure: the gateway
\* raises, or its result has no quiz.
QuizFails(r, out) ==
    /\ r.live
    /\ QuizSettles(r, out)
    /\ generateQuiz(out).raised \/ ~generateQuiz(out).value.hasQuiz

QuizFailureStep ==
    \A r \in BagToSet(requests) :
        (r.op = "quiz" /\ requests' = Settle(requests, r)) =>
            \A out \in QuizOutcomes(AppQuizzes) :
                QuizFails(r, out) =>
                    /\ ~quizLoading'
                    /\ questions' = << >>
                    /\ userAnswers' = EmptyObject
                    /\ ~showResults'

(***************************************************************************)
(* C24: when quiz generation fails (the gateway raises, or its result has  *)
(* no quiz list) the quiz ends in Empty: not loading, no questions, no     *)
(* answers, not submitted; the quiz shown before "Start New Quiz" does not *)
(* come back.                                                              *)
(***************************************************************************)
C24_FailedQuizEndsEmpty == [][QuizFailureStep]_vars

\* Without a key, "Start New Quiz" has been pressed: the request in flight
\* can only fail.
C24_Witness ==
    /\ view = "quiz" /\ ~hasKey
    /\ quizLoading /\ OwnQuizInFlight = 1

\* Each of the three kinds of loading flag is eventually false again.
QnaLoadingEnds == qnaLoading ~> ~qnaLoading
QuizLoadingEnds == quizLoading ~> ~quizLoading
SummaryLoadingEnds == \A t \in Titles : Flag(loading, t) ~> ~Flag(loading, t)

\* The completion of a summary request of the mounted Summaries clears the
\* flag of its title; the flag is set in the same step only when the effect
\* issues the next request for that title.
SummaryFlagCleared ==
    \A r \in BagToSet(requests), out \in TextOutcomes :
        (r.live /\ SummarySettles(r, out) /\ Flag(loading', r.title))
            => SummariesInFlightNext(r.title) = SummariesInFlight(r.title)

(***************************************************************************)
(* C25: when every remote call eventually completes, every store that      *)
(* enters Loading eventually leaves it: the loading flag of a summary      *)
(* title, the Q&A loading flag and the quiz loading flag each become false *)
(* again.                                                                  *)
(***************************************************************************)
C25_LoadingEventuallyEnds ==
    /\ SummaryLoadingEnds
    /\ QnaLoadingEnds
    /\ QuizLoadingEnds
    /\ [][SummaryFlagCleared]_vars

\* The summaries of the first two sections have been loading and are
\* loaded.
C25_Witness ==
    /\ view = "summary"
    /\ Loaded(TitleAt(0)) /\ Loaded(TitleAt(1))
    /\ Truthy(Get(summaries, TitleAt(0))) /\ Truthy(Get(summaries, TitleAt(1)))
    /\ requests = EmptyBag

\* The quiz session on screen: what the Quiz instance mounted now holds.
QuizSession == << questions, quizLoading, userAnswers, showResults >>

\* The mounted Quiz has a request in flight exactly while it is loading, and
\* then it is the request of its latest start: the session it will fill is
\* still empty.
OneRequestPerSession ==
    /\ OwnQuizInFlight = (IF quizLoading THEN 1 ELSE 0)
    /\ quizLoading =>
          /\ view = "quiz"
          /\ questions = << >> /\ userAnswers = EmptyObject /\ ~showResults

\* This step is the completion of the quiz request r: r leaves the pending
\* requests.
QuizCompletes(r) == r.op = "quiz" /\ requests' = Settle(requests, r)

\* A quiz result changes the session only when the mounted Quiz issued the
\* request, and then it changes neither the answers nor the submitted flag;
\* questions appear in no other way.
QuizResultStep ==
    /\ \A r \in BagToSet(requests) :
          QuizCompletes(r) =>
              IF r.live
              THEN /\ quizLoading /\ ~quizLoading'
                   /\ UNCHANGED << userAnswers, showResults >>
              ELSE UNCHANGED QuizSession
    /\ (questions' # questions /\ questions' # << >>) =>
          \E r \in BagToSet(requests) : r.live /\ QuizCompletes(r)

(***************************************************************************)
(* C26: a quiz result is applied only to the quiz session created by the   *)
(* "Start New Quiz" press that issued its request: whatever the order of   *)
(* starts, view switches and completions, the result of an earlier request *)
(* replaces neither the questions, nor the answers, nor the submitted flag *)
(* of a later session.                                                     *)
(***************************************************************************)
C26_QuizResultReachesOwnSession ==
    /\ []OneRequestPerSession
    /\ [][QuizResultStep]_vars

\* The request of a Quiz that was unmounted is still in flight while a later
\* session has its questions and an answer.
C26_Witness ==
    /\ view = "quiz"
    /\ Pending(requests, {r \in BagToSet(requests) : r.op = "quiz" /\ ~r.live}) >= 1
    /\ Len(questions) > 0
    /\ userAnswers # EmptyObject
====
